---- MODULE Spec2Model ----
(***************************************************************************)
(* Model of AMS-APP.py, a Streamlit audit-management demo.                 *)
(*                                                                         *)
(* The program is one script that Streamlit runs from top to bottom once   *)
(* per user interaction.  Three lists live in st.session_state and survive *)
(* from one run to the next; everything else is recomputed by each run.    *)
(* One action of the model is one interaction together with the script     *)
(* run (and, after st.rerun(), the second run) that it triggers.           *)
(*                                                                         *)
(* Python strings are modelled as sequences of one-character strings, so   *)
(* that slicing, int(), str() and zfill() are computed and not assumed.    *)
(***************************************************************************)
EXTENDS Integers, Sequences, FiniteSets, TLC

VARIABLES
    session_keys,        \* the keys present in st.session_state
    audit_engagements,   \* st.session_state.audit_engagements
    audit_findings,      \* st.session_state.audit_findings
    corrective_actions,  \* st.session_state.corrective_actions
    choice,              \* value of the sidebar selectbox "Navigation"
    today,               \* datetime.now().date() as read by the latest run
    request,             \* the button or form whose submission the latest run handled
    screen               \* what the latest run rendered

vars == <<session_keys, audit_engagements, audit_findings, corrective_actions,
          choice, today, request, screen>>

stores == <<audit_engagements, audit_findings, corrective_actions>>

----------------------------------------------------------------------------
(* Bounds of the model *)

\* total number of records over the three lists
MaxRecords == 3
\* the clock runs over the days 0 .. MaxDay
MaxDay == 1

(* Program constants *)

\* str(last_id + 1).zfill(3)
IdWidth == 3
\* DataFrame.tail(5)
RecentCount == 5

----------------------------------------------------------------------------
(* Python values *)

\* None; no Python string is this sequence, whose element is not a character
None == <<"None">>

\* a str is truthy unless it is empty; None is falsy
Truthy(x) == x # None /\ x # <<>>

DigitChars == <<"0", "1", "2", "3", "4", "5", "6", "7", "8", "9">>

DigitOf(c) == CHOOSE d \in 0..9 : DigitChars[d + 1] = c

\* str(n) for an int n >= 0
RECURSIVE str(_)
str(n) ==
    IF n < 10 THEN <<DigitChars[n + 1]>>
    ELSE str(n \div 10) \o <<DigitChars[(n % 10) + 1]>>

\* int(s) for a non-empty string of decimal digits
RECURSIVE int(_)
int(s) ==
    IF Len(s) = 1 THEN DigitOf(s[1])
    ELSE int(SubSeq(s, 1, Len(s) - 1)) * 10 + DigitOf(s[Len(s)])

\* s.zfill(width) for an unsigned s
RECURSIVE zfill(_, _)
zfill(s, width) ==
    IF Len(s) >= width THEN s ELSE zfill(<<"0">> \o s, width)

\* s[k:]
SliceFrom(s, k) == SubSeq(s, k + 1, Len(s))

\* max(ns) for a non-empty list of ints
max(ns) == CHOOSE m \in {ns[i] : i \in DOMAIN ns} :
                   \A i \in DOMAIN ns : ns[i] <= m

AE == <<"A", "E">>
F_ == <<"F">>
CA == <<"C", "A">>

----------------------------------------------------------------------------
(* Helper functions, lines 17-70 *)

generate_id_NoIncrement(prefix, current_list) ==
    IF current_list = <<>> THEN prefix \o <<"0", "0", "1">>
    ELSE LET last_id == max([i \in DOMAIN current_list |->
                           int(SliceFrom(current_list[i].ID, Len(prefix)))])
         IN  prefix \o zfill(str(last_id), IdWidth)

generate_id(prefix, current_list) ==
    IF current_list = <<>> THEN prefix \o <<"0", "0", "1">>
    ELSE LET last_id == max([i \in DOMAIN current_list |->
                           int(SliceFrom(current_list[i].ID, Len(prefix)))])
         IN  prefix \o zfill(str(last_id + 1), IdWidth)

Message(kind, text, arg) == [kind |-> kind, text |-> text, arg |-> arg]

\* returns the list after the append and the st.success message
add_audit_engagement(list, title, department, audit_type, auditors, auditees, start_date, end_date, audit_report_name, audit_report_data) ==
    LET engagement_id == generate_id(AE, list)
    IN  [list |-> Append(list,
                    [ID |-> engagement_id,
                     Title |-> title,
                     Department |-> department,
                     AuditType |-> audit_type,
                     Auditors |-> auditors,
                     Auditees |-> auditees,
                     StartDate |-> start_date,
                     EndDate |-> end_date,
                     Status |-> "Draft",
                     AuditReportName |-> audit_report_name,
                     AuditReportData |-> audit_report_data]),
         messages |-> <<Message("success", "Audit Engagement created with ID",
                                engagement_id)>>]

add_audit_finding(list, audit_engagement_id, category, description, risk_level, root_cause, recommendation, evidence_name, evidence_data) ==
    LET finding_id == generate_id(F_, list)
    IN  [list |-> Append(list,
                    [ID |-> finding_id,
                     AuditEngagementID |-> audit_engagement_id,
                     Category |-> category,
                     Description |-> description,
                     EvidenceName |-> evidence_name,
                     EvidenceData |-> evidence_data,
                     RiskLevel |-> risk_level,
                     RootCause |-> root_cause,
                     Recommendation |-> recommendation,
                     Status |-> "Open"]),
         messages |-> <<Message("success", "Audit Finding added to Engagement",
                                finding_id)>>]

\* the Status of a finding copied into the new action
add_corrective_action_FindingStatus(list, finding_id, responsible_person, action_description, due_date, follow_up_evidence_name, follow_up_evidence_data) ==
    LET action_id == generate_id(CA, list)
    IN  [list |-> Append(list,
                    [ID |-> action_id,
                     FindingID |-> finding_id,
                     ResponsiblePerson |-> responsible_person,
                     ActionDescription |-> action_description,
                     DueDate |-> due_date,
                     Status |-> "Open",
                     FollowUpEvidenceName |-> follow_up_evidence_name,
                     FollowUpEvidenceData |-> follow_up_evidence_data]),
         messages |-> <<Message("success", "Corrective Action added for Finding",
                                action_id)>>]

add_corrective_action(list, finding_id, responsible_person, action_description, due_date, follow_up_evidence_name, follow_up_evidence_data) ==
    LET action_id == generate_id(CA, list)
    IN  [list |-> Append(list,
                    [ID |-> action_id,
                     FindingID |-> finding_id,
                     ResponsiblePerson |-> responsible_person,
                     ActionDescription |-> action_description,
                     DueDate |-> due_date,
                     Status |-> "Pending",
                     FollowUpEvidenceName |-> follow_up_evidence_name,
                     FollowUpEvidenceData |-> follow_up_evidence_data]),
         messages |-> <<Message("success", "Corrective Action added for Finding",
                                action_id)>>]

----------------------------------------------------------------------------
(* Small pandas and dict helpers *)

Min(a, b) == IF a <= b THEN a ELSE b

\* DataFrame(list).tail(n): the last n rows, in order
tail(rows, n) == SubSeq(rows, Len(rows) - Min(n, Len(rows)) + 1, Len(rows))

\* DataFrame.drop(columns=[column], errors='ignore')
drop(rows, column) ==
    [i \in DOMAIN rows |->
        [c \in (DOMAIN rows[i]) \ {column} |-> rows[i][c]]]

\* a dict is a sequence of <<key, value>> in insertion order;
\* d[k] = v keeps the place of a key that is already there
DictPut(d, k, v) ==
    IF \E i \in DOMAIN d : d[i][1] = k
    THEN [i \in DOMAIN d |-> IF d[i][1] = k THEN <<k, v>> ELSE d[i]]
    ELSE Append(d, <<k, v>>)

DictValues(d) == [i \in DOMAIN d |-> d[i][2]]

\* f"{id} - {text}"
Display(id, text) == id \o <<" ", "-", " ">> \o text

\* {ae['ID']: f"{ae['ID']} - {ae['Title']}" for ae in audit_engagements}
RECURSIVE available_engagements(_)
available_engagements(list) ==
    IF list = <<>> THEN <<>>
    ELSE LET ae == list[Len(list)]
         IN  DictPut(available_engagements(SubSeq(list, 1, Len(list) - 1)),
                     ae.ID, Display(ae.ID, ae.Title))

\* {f['ID']: f"{f['ID']} - {f['Description']}" for f in audit_findings}
RECURSIVE available_findings(_)
available_findings(list) ==
    IF list = <<>> THEN <<>>
    ELSE LET f == list[Len(list)]
         IN  DictPut(available_findings(SubSeq(list, 1, Len(list) - 1)),
                     f.ID, Display(f.ID, f.Description))

\* the option text is used as the key
selected_id_DisplayText(d, display) ==
    IF Truthy(display) THEN display ELSE None

\* [k for k, v in d.items() if v == display][0] if display else None
selected_id(d, display) ==
    IF Truthy(display)
    THEN SelectSeq(d, LAMBDA kv : kv[2] = display)[1][1]
    ELSE None

\* [x['ID'] for x in list]
ids(list) == [i \in DOMAIN list |-> list[i].ID]

----------------------------------------------------------------------------
(* The pages, lines 82-287: what one run renders for the lists it is given *)

\* sum(1 for x in list if x['Status'] == status)
RECURSIVE count_status(_, _)
count_status(list, status) ==
    IF list = <<>> THEN 0
    ELSE (IF Head(list).Status = status THEN 1 ELSE 0)
         + count_status(Tail(list), status)

\* "<=" in place of "<": an action due today counts
RECURSIVE overdue_actions_DueToday(_, _)
overdue_actions_DueToday(list, now) ==
    IF list = <<>> THEN 0
    ELSE (IF Head(list).Status \notin {"Verified", "Closed"}
             /\ Head(list).DueDate <= now THEN 1 ELSE 0)
         + overdue_actions_DueToday(Tail(list), now)

\* sum(1 for ca in corrective_actions
\*     if ca['Status'] not in ['Verified', 'Closed'] and ca['Due Date'] < now)
RECURSIVE overdue_actions(_, _)
overdue_actions(list, now) ==
    IF list = <<>> THEN 0
    ELSE (IF Head(list).Status \notin {"Verified", "Closed"}
             /\ Head(list).DueDate < now THEN 1 ELSE 0)
         + overdue_actions(Tail(list), now)

\* df.tail(5).set_index('ID') of the engagements: every column is shown
recent_engagements(list) == tail(list, RecentCount)

\* df.tail(5).set_index('ID') of the findings: every column is shown
recent_findings(list) == tail(list, RecentCount)

Info(text) == Message("info", text, None)

Dashboard(engagements, findings, actions, now) ==
    [page |-> "Dashboard",
     widgets |-> {"Navigation"},
     update_options |-> <<>>,
     link_options |-> <<>>,
     total_audits |-> Len(engagements),
     completed_audits |-> count_status(engagements, "Completed"),
     total_findings |-> Len(findings),
     closed_findings |-> count_status(findings, "Closed"),
     overdue_actions |-> overdue_actions(actions, now),
     recent_engagements |-> recent_engagements(engagements),
     recent_findings |-> recent_findings(findings),
     messages |->
        (IF engagements # <<>> THEN <<>>
         ELSE <<Info("No audit engagements created yet.")>>)
        \o (IF findings # <<>> THEN <<>>
            ELSE <<Info("No audit findings created yet.")>>)]

\* form_messages: what the submitted form of tab 1 reported in this run
EngagementsPage(engagements, form_messages) ==
    [page |-> "Audit Engagements",
     widgets |-> {"Navigation", "new_audit_engagement_form"}
                 \cup (IF engagements # <<>> /\ ids(engagements) # <<>>
                       THEN {"update_ae_button"} ELSE {}),
     table |-> drop(engagements, "AuditReportData"),
     update_options |-> ids(engagements),
     link_options |-> <<>>,
     messages |->
        form_messages
        \o (IF engagements = <<>>
            THEN <<Info("No audit engagements created yet.")>>
            ELSE IF ids(engagements) = <<>>
            THEN <<Info("No engagements to update.")>>
            ELSE <<>>)]

FindingsPage(engagements, findings, form_messages) ==
    [page |-> "Audit Findings",
     widgets |-> {"Navigation"}
                 \cup (IF engagements # <<>>
                       THEN {"new_audit_finding_form"} ELSE {})
                 \cup (IF findings # <<>> /\ ids(findings) # <<>>
                       THEN {"update_find_button"} ELSE {}),
     table |-> drop(findings, "EvidenceData"),
     update_options |-> ids(findings),
     link_options |-> DictValues(available_engagements(engagements)),
     messages |->
        (IF engagements = <<>>
         THEN <<Message("warning",
                  "Please create an Audit Engagement first before adding findings.",
                  None)>>
         ELSE form_messages)
        \o (IF findings = <<>>
            THEN <<Info("No audit findings created yet.")>>
            ELSE IF ids(findings) = <<>>
            THEN <<Info("No findings to update.")>>
            ELSE <<>>)]

ActionsPage(findings, actions, form_messages) ==
    [page |-> "Corrective Actions",
     widgets |-> {"Navigation"}
                 \cup (IF findings # <<>>
                       THEN {"new_corrective_action_form"} ELSE {})
                 \cup (IF actions # <<>> /\ ids(actions) # <<>>
                       THEN {"update_ca_button"} ELSE {}),
     table |-> drop(actions, "FollowUpEvidenceData"),
     update_options |-> ids(actions),
     link_options |-> DictValues(available_findings(findings)),
     messages |->
        (IF findings = <<>>
         THEN <<Message("warning",
                  "Please create an Audit Finding first before adding corrective actions.",
                  None)>>
         ELSE form_messages)
        \o (IF actions = <<>>
            THEN <<Info("No corrective actions created yet.")>>
            ELSE IF ids(actions) = <<>>
            THEN <<Info("No corrective actions to update.")>>
            ELSE <<>>)]

\* the if/elif chain on choice, lines 82, 128, 179, 235
Page(page, engagements, findings, actions, now, form_messages) ==
    CASE page = "Dashboard" -> Dashboard(engagements, findings, actions, now)
      [] page = "Audit Engagements" -> EngagementsPage(engagements, form_messages)
      [] page = "Audit Findings" ->
             FindingsPage(engagements, findings, form_messages)
      [] page = "Corrective Actions" ->
             ActionsPage(findings, actions, form_messages)

----------------------------------------------------------------------------
(* Session state, lines 7-14: a list is created only if its key is absent *)

SessionKeys == {"audit_engagements", "audit_findings", "corrective_actions"}

\* the guard "not in st.session_state" left out: every run starts from empty lists
session_list_Reset(key, keys, list) == <<>>

session_list(key, keys, list) == IF key \notin keys THEN <<>> ELSE list

\* the three lists as a run finds them after lines 7-14
Engagements0 == session_list("audit_engagements", session_keys, audit_engagements)
Findings0 == session_list("audit_findings", session_keys, audit_findings)
Actions0 == session_list("corrective_actions", session_keys, corrective_actions)

TotalRecords == Len(audit_engagements) + Len(audit_findings) + Len(corrective_actions)

----------------------------------------------------------------------------
(* Widgets: the options offered and the values a user can enter *)

menu == <<"Dashboard", "Audit Engagements", "Audit Findings", "Corrective Actions">>

ae_status_options == <<"Draft", "In Progress", "Completed", "Cancelled">>
find_status_options == <<"Open", "Closed">>
ca_status_options == <<"Pending", "In Progress", "Verified", "Closed">>

Range(seq) == {seq[i] : i \in DOMAIN seq}

\* st.selectbox(label, options): one of the options, None if there is none
selectbox(options) == IF options = <<>> THEN {None} ELSE Range(options)

\* text inputs: left empty, or filled in
Texts(filled) == {<<>>, filled}

\* an UploadedFile <<name, getvalue()>> as st.file_uploader returns it
UploadedFile(name) == <<name, <<"b", "y", "t", "e", "s">>>>

\* file.name if file else None
upload_name(file) == IF file # None THEN file[1] ELSE None
\* file.getvalue() if file else None
upload_data(file) == IF file # None THEN file[2] ELSE None

Low == <<"L", "o", "w">>

Dates == 0..MaxDay

----------------------------------------------------------------------------
(* Form handlers: the lists after the submission and what it reported *)

RequiredFieldsError(text) == <<Message("error", text, None)>>

\* "or" in place of "and" in the test of line 149
new_audit_engagement_form_AnyField(list, ae_title, ae_department, ae_audit_type, ae_auditors, ae_auditees, ae_start_date, ae_end_date, ae_report_file) ==
    IF Truthy(ae_title) \/ Truthy(ae_department) \/ Truthy(ae_auditors)
    THEN add_audit_engagement(list, ae_title, ae_department, ae_audit_type,
                              ae_auditors, ae_auditees, ae_start_date, ae_end_date,
                              upload_name(ae_report_file),
                              upload_data(ae_report_file))
    ELSE [list |-> list,
          messages |-> RequiredFieldsError(
              "Please fill in all required fields (Title, Department, Auditors).")]

\* lines 146-153
new_audit_engagement_form(list, ae_title, ae_department, ae_audit_type, ae_auditors, ae_auditees, ae_start_date, ae_end_date, ae_report_file) ==
    IF Truthy(ae_title) /\ Truthy(ae_department) /\ Truthy(ae_auditors)
    THEN add_audit_engagement(list, ae_title, ae_department, ae_audit_type,
                              ae_auditors, ae_auditees, ae_start_date, ae_end_date,
                              upload_name(ae_report_file),
                              upload_data(ae_report_file))
    ELSE [list |-> list,
          messages |-> RequiredFieldsError(
              "Please fill in all required fields (Title, Department, Auditors).")]

\* lines 202-209
new_audit_finding_form(list, selected_engagement_id, find_category, find_description, find_evidence_file, find_risk_level, find_root_cause, find_recommendation) ==
    IF Truthy(selected_engagement_id) /\ Truthy(find_description)
       /\ Truthy(find_risk_level)
    THEN add_audit_finding(list, selected_engagement_id, find_category,
                           find_description, find_risk_level, find_root_cause,
                           find_recommendation,
                           upload_name(find_evidence_file),
                           upload_data(find_evidence_file))
    ELSE [list |-> list,
          messages |-> RequiredFieldsError(
              "Please fill in all required fields (Engagement, Description, Risk Level).")]

\* lines 256-263; a datetime.date is always truthy
new_corrective_action_form(list, selected_finding_id, ca_responsible_person, ca_description, ca_due_date, ca_follow_up_file) ==
    IF Truthy(selected_finding_id) /\ Truthy(ca_responsible_person)
       /\ Truthy(ca_description) /\ ca_due_date \in Int
    THEN add_corrective_action(list, selected_finding_id, ca_responsible_person,
                               ca_description, ca_due_date,
                               upload_name(ca_follow_up_file),
                               upload_data(ca_follow_up_file))
    ELSE [list |-> list,
          messages |-> RequiredFieldsError(
              "Please fill in all required fields (Finding, Responsible Person, Description, Due Date).")]

----------------------------------------------------------------------------
(* Status update, lines 168-173, 224-229, 278-283: the for loop sets the     *)
(* Status of the first record whose ID matches and calls st.rerun(), which  *)
(* ends the run; with no match the loop ends and nothing is reported.       *)

\* the assignment dedented out of the loop: it hits the loop variable's last value
RECURSIVE update_loop_AfterLoop(_, _, _, _)
update_loop_AfterLoop(list, i, selected, new_status) ==
    IF i > Len(list)
    THEN [list |-> IF list = <<>> THEN list
                   ELSE [list EXCEPT ![Len(list)].Status = new_status],
          rerun |-> FALSE]
    ELSE IF list[i].ID = selected
    THEN [list |-> [list EXCEPT ![i].Status = new_status], rerun |-> TRUE]
    ELSE update_loop_AfterLoop(list, i + 1, selected, new_status)

\* the test of the ID left out: the first record is the one updated
update_loop_NoIdTest(list, i, selected, new_status) ==
    IF i > Len(list) THEN [list |-> list, rerun |-> FALSE]
    ELSE [list |-> [list EXCEPT ![i].Status = new_status], rerun |-> TRUE]

StatusRank(status) ==
    CASE status \in {"Draft", "Open", "Pending"} -> 1
      [] status = "In Progress" -> 2
      [] status \in {"Completed", "Verified"} -> 3
      [] status \in {"Cancelled", "Closed"} -> 4

\* a state machine: the Status is set only if it does not go back
RECURSIVE update_loop_ForwardOnly(_, _, _, _)
update_loop_ForwardOnly(list, i, selected, new_status) ==
    IF i > Len(list) THEN [list |-> list, rerun |-> FALSE]
    ELSE IF list[i].ID = selected
    THEN [list |-> IF StatusRank(new_status) >= StatusRank(list[i].Status)
                   THEN [list EXCEPT ![i].Status = new_status] ELSE list,
          rerun |-> TRUE]
    ELSE update_loop_ForwardOnly(list, i + 1, selected, new_status)

RECURSIVE update_loop(_, _, _, _)
update_loop(list, i, selected, new_status) ==
    IF i > Len(list) THEN [list |-> list, rerun |-> FALSE]
    ELSE IF list[i].ID = selected
    THEN [list |-> [list EXCEPT ![i].Status = new_status], rerun |-> TRUE]
    ELSE update_loop(list, i + 1, selected, new_status)

update_ae_button(list, selected_ae_id, new_status) ==
    update_loop(list, 1, selected_ae_id, new_status)

update_find_button(list, selected_finding_id, new_finding_status) ==
    update_loop(list, 1, selected_finding_id, new_finding_status)

update_ca_button(list, selected_ca_id, new_ca_status) ==
    update_loop(list, 1, selected_ca_id, new_ca_status)

----------------------------------------------------------------------------
(* The state before the first run of a session *)

Init ==
    /\ session_keys = {}
    /\ audit_engagements = <<>>
    /\ audit_findings = <<>>
    /\ corrective_actions = <<>>
    /\ choice = menu[1]
    /\ today = 0
    /\ request = [widget |-> "none"]
    /\ screen = [page |-> "none", widgets |-> {}, update_options |-> <<>>,
                 link_options |-> <<>>, messages |-> <<>>]

(* One interaction and the run it triggers.  Every run starts with lines   *)
(* 7-14 and reads the clock, which never goes back.                        *)

\* the first run of the session, or a rerun without any widget change
Rerun ==
    \E now \in today..MaxDay :
        /\ session_keys' = session_keys \cup SessionKeys
        /\ audit_engagements' = Engagements0
        /\ audit_findings' = Findings0
        /\ corrective_actions' = Actions0
        /\ choice' = choice
        /\ today' = now
        /\ request' = [widget |-> "none"]
        /\ screen' = Page(choice, Engagements0, Findings0, Actions0, now, <<>>)

\* the sidebar selectbox, line 80
Navigate(page) ==
    /\ "Navigation" \in screen.widgets
    /\ page # choice
    /\ \E now \in today..MaxDay :
        /\ session_keys' = session_keys \cup SessionKeys
        /\ audit_engagements' = Engagements0
        /\ audit_findings' = Findings0
        /\ corrective_actions' = Actions0
        /\ choice' = page
        /\ today' = now
        /\ request' = [widget |-> "none"]
        /\ screen' = Page(page, Engagements0, Findings0, Actions0, now, <<>>)

\* "Create Audit Engagement", lines 135-153
SubmitEngagement(ae_title, ae_department, ae_audit_type, ae_auditors, ae_auditees, ae_start_date, ae_end_date, ae_report_file) ==
    /\ "new_audit_engagement_form" \in screen.widgets
    /\ \E now \in today..MaxDay :
        LET r == new_audit_engagement_form(Engagements0, ae_title, ae_department,
                     ae_audit_type, ae_auditors, ae_auditees, ae_start_date,
                     ae_end_date, ae_report_file)
        IN  /\ Len(r.list) > Len(Engagements0) => TotalRecords < MaxRecords
            /\ session_keys' = session_keys \cup SessionKeys
            /\ audit_engagements' = r.list
            /\ audit_findings' = Findings0
            /\ corrective_actions' = Actions0
            /\ choice' = choice
            /\ today' = now
            /\ request' = [widget |-> "new_audit_engagement_form"]
            /\ screen' = Page(choice, r.list, Findings0, Actions0, now, r.messages)

\* "Create Audit Finding", lines 189-209
SubmitFinding(selected_engagement_display, find_category, find_description, find_evidence_file, find_risk_level, find_root_cause, find_recommendation) ==
    /\ "new_audit_finding_form" \in screen.widgets
    /\ \E now \in today..MaxDay :
        LET selected_engagement_id ==
                selected_id(available_engagements(Engagements0),
                            selected_engagement_display)
            r == new_audit_finding_form(Findings0, selected_engagement_id,
                     find_category, find_description, find_evidence_file,
                     find_risk_level, find_root_cause, find_recommendation)
        IN  /\ Len(r.list) > Len(Findings0) => TotalRecords < MaxRecords
            /\ session_keys' = session_keys \cup SessionKeys
            /\ audit_engagements' = Engagements0
            /\ audit_findings' = r.list
            /\ corrective_actions' = Actions0
            /\ choice' = choice
            /\ today' = now
            /\ request' = [widget |-> "new_audit_finding_form"]
            /\ screen' = Page(choice, Engagements0, r.list, Actions0, now, r.messages)

\* "Create Corrective Action", lines 245-263
SubmitCorrectiveAction(selected_finding_display, ca_responsible_person, ca_description, ca_due_date, ca_follow_up_file) ==
    /\ "new_corrective_action_form" \in screen.widgets
    /\ \E now \in today..MaxDay :
        LET selected_finding_id ==
                selected_id(available_findings(Findings0), selected_finding_display)
            r == new_corrective_action_form(Actions0, selected_finding_id,
                     ca_responsible_person, ca_description, ca_due_date,
                     ca_follow_up_file)
        IN  /\ Len(r.list) > Len(Actions0) => TotalRecords < MaxRecords
            /\ session_keys' = session_keys \cup SessionKeys
            /\ audit_engagements' = Engagements0
            /\ audit_findings' = Findings0
            /\ corrective_actions' = r.list
            /\ choice' = choice
            /\ today' = now
            /\ request' = [widget |-> "new_corrective_action_form"]
            /\ screen' = Page(choice, Engagements0, Findings0, r.list, now, r.messages)

\* "Update Engagement Status", lines 163-173.  After st.rerun() the page is
\* rendered again from the updated list; without it the run just ends.
UpdateEngagementStatus(selected_ae_id, new_status) ==
    /\ "update_ae_button" \in screen.widgets
    /\ \E now \in today..MaxDay :
        LET r == update_ae_button(Engagements0, selected_ae_id, new_status)
        IN  /\ session_keys' = session_keys \cup SessionKeys
            /\ audit_engagements' = r.list
            /\ audit_findings' = Findings0
            /\ corrective_actions' = Actions0
            /\ choice' = choice
            /\ today' = now
            /\ request' = [widget |-> "update_ae_button",
                           selected_id |-> selected_ae_id,
                           new_status |-> new_status]
            /\ screen' = IF r.rerun
                         THEN Page(choice, r.list, Findings0, Actions0, now, <<>>)
                         ELSE Page(choice, Engagements0, Findings0, Actions0, now, <<>>)

\* "Update Finding Status", lines 219-229
UpdateFindingStatus(selected_finding_id, new_finding_status) ==
    /\ "update_find_button" \in screen.widgets
    /\ \E now \in today..MaxDay :
        LET r == update_find_button(Findings0, selected_finding_id, new_finding_status)
        IN  /\ session_keys' = session_keys \cup SessionKeys
            /\ audit_engagements' = Engagements0
            /\ audit_findings' = r.list
            /\ corrective_actions' = Actions0
            /\ choice' = choice
            /\ today' = now
            /\ request' = [widget |-> "update_find_button",
                           selected_id |-> selected_finding_id,
                           new_status |-> new_finding_status]
            /\ screen' = IF r.rerun
                         THEN Page(choice, Engagements0, r.list, Actions0, now, <<>>)
                         ELSE Page(choice, Engagements0, Findings0, Actions0, now, <<>>)

\* "Update Corrective Action Status", lines 273-283
UpdateActionStatus(selected_ca_id, new_ca_status) ==
    /\ "update_ca_button" \in screen.widgets
    /\ \E now \in today..MaxDay :
        LET r == update_ca_button(Actions0, selected_ca_id, new_ca_status)
        IN  /\ session_keys' = session_keys \cup SessionKeys
            /\ audit_engagements' = Engagements0
            /\ audit_findings' = Findings0
            /\ corrective_actions' = r.list
            /\ choice' = choice
            /\ today' = now
            /\ request' = [widget |-> "update_ca_button",
                           selected_id |-> selected_ca_id,
                           new_status |-> new_ca_status]
            /\ screen' = IF r.rerun
                         THEN Page(choice, Engagements0, Findings0, r.list, now, <<>>)
                         ELSE Page(choice, Engagements0, Findings0, Actions0, now, <<>>)

----------------------------------------------------------------------------
(* What a user of the pages can do.  The values entered are drawn from      *)
(* small sets: each text is empty or filled in; an engagement and a        *)
(* corrective action come without a file, a finding with one.              *)

CreateEngagement ==
    \E ae_title \in Texts(<<"T">>), ae_department \in Texts(<<"D">>),
       ae_auditors \in Texts(<<"A">>) :
        SubmitEngagement(ae_title, ae_department, "Compliance", ae_auditors,
                         <<>>, 0, MaxDay, None)

CreateFinding ==
    \E selected_engagement_display \in selectbox(screen.link_options),
       find_description \in Texts(<<"d">>) :
        SubmitFinding(selected_engagement_display, "Major", find_description,
                      UploadedFile(<<"e">>), Low, <<>>, <<>>)

CreateCorrectiveAction ==
    \E selected_finding_display \in selectbox(screen.link_options),
       ca_responsible_person \in Texts(<<"P">>),
       ca_description \in Texts(<<"c">>),
       ca_due_date \in Dates :
        SubmitCorrectiveAction(selected_finding_display, ca_responsible_person,
                               ca_description, ca_due_date, None)

UpdateEngagement ==
    \E selected_ae_id \in selectbox(screen.update_options),
       new_status \in selectbox(ae_status_options) :
        UpdateEngagementStatus(selected_ae_id, new_status)

UpdateFinding ==
    \E selected_finding_id \in selectbox(screen.update_options),
       new_finding_status \in selectbox(find_status_options) :
        UpdateFindingStatus(selected_finding_id, new_finding_status)

UpdateAction ==
    \E selected_ca_id \in selectbox(screen.update_options),
       new_ca_status \in selectbox(ca_status_options) :
        UpdateActionStatus(selected_ca_id, new_ca_status)

GoTo == \E page \in selectbox(menu) : Navigate(page)

Next ==
    \/ Rerun
    \/ GoTo
    \/ CreateEngagement
    \/ CreateFinding
    \/ CreateCorrectiveAction
    \/ UpdateEngagement
    \/ UpdateFinding
    \/ UpdateAction

Spec == Init /\ [][Next]_vars

----------------------------------------------------------------------------
(* The update loops applied to an ID that is not in the list.  The pages   *)
(* never do this: the selectbox offers the IDs of the list.  SpecCore adds *)
(* such calls so that the loops' behaviour on an unknown ID can be stated; *)
(* they reach no list that Spec does not reach.                            *)

\* the ID that the list will assign next, which no record carries yet
UnknownIds(prefix, list) == {generate_id(prefix, list)} \ Range(ids(list))

StaleUpdateEngagement ==
    \E selected_ae_id \in UnknownIds(AE, audit_engagements),
       new_status \in selectbox(ae_status_options) :
        UpdateEngagementStatus(selected_ae_id, new_status)

StaleUpdateFinding ==
    \E selected_finding_id \in UnknownIds(F_, audit_findings),
       new_finding_status \in selectbox(find_status_options) :
        UpdateFindingStatus(selected_finding_id, new_finding_status)

StaleUpdateAction ==
    \E selected_ca_id \in UnknownIds(CA, corrective_actions),
       new_ca_status \in selectbox(ca_status_options) :
        UpdateActionStatus(selected_ca_id, new_ca_status)

NextCore ==
    \/ Next
    \/ StaleUpdateEngagement
    \/ StaleUpdateFinding
    \/ StaleUpdateAction

SpecCore == Init /\ [][NextCore]_vars

----------------------------------------------------------------------------
(* Properties *)

\* the ID that the n-th record of a list is to carry, written out digit by digit
Digit(n) == DigitChars[(n % 10) + 1]

ExpectedId(prefix, n) ==
    prefix \o (IF n < 1000
               THEN <<Digit(n \div 100), Digit(n \div 10), Digit(n)>>
               ELSE <<Digit(n \div 1000), Digit(n \div 100), Digit(n \div 10),
                      Digit(n)>>)

Sequential(prefix, list) ==
    \A i \in DOMAIN list : list[i].ID = ExpectedId(prefix, i)

\* a list of n records as n creations leave their IDs
ListOfSize(prefix, n) == [i \in 1..n |-> [ID |-> ExpectedId(prefix, i)]]

GenerateIdKeepsWidth ==
    \A prefix \in {AE, F_, CA} :
        /\ generate_id(prefix, ListOfSize(prefix, 9)) = prefix \o <<"0", "1", "0">>
        /\ generate_id(prefix, ListOfSize(prefix, 99)) = prefix \o <<"1", "0", "0">>

GenerateIdPast999 ==
    \A prefix \in {AE, F_, CA} :
        /\ generate_id(prefix, ListOfSize(prefix, 999))
               = prefix \o <<"1", "0", "0", "0">>
        /\ generate_id(prefix, ListOfSize(prefix, 1000))
               = prefix \o <<"1", "0", "0", "1">>

\* C1: in every reachable state the IDs of each list, in creation order, are
\* prefix001, prefix002, ..., prefixN (so unique and increasing); the next ID
\* after 9, 99, 999 and 1000 records is prefix010, prefix100, prefix1000 and
\* prefix1001.
IdsAreSequential ==
    /\ Sequential(AE, audit_engagements)
    /\ Sequential(F_, audit_findings)
    /\ Sequential(CA, corrective_actions)
    /\ GenerateIdKeepsWidth
    /\ GenerateIdPast999

IdsAreSequentialWitness ==
    /\ Len(audit_engagements) >= 2
    /\ audit_engagements[2].ID = <<"A", "E", "0", "0", "2">>
    /\ Len(audit_findings) >= 1
    /\ audit_findings[1].ID = <<"F", "0", "0", "1">>

\* C2: every finding names an engagement of the list and every corrective
\* action a finding of the list; while the engagements (findings) list is
\* empty the form that creates a finding (corrective action) is not offered
\* and no creation is possible.
ReferentialIntegrity ==
    /\ \A i \in DOMAIN audit_findings :
           audit_findings[i].AuditEngagementID \in Range(ids(audit_engagements))
    /\ \A i \in DOMAIN corrective_actions :
           corrective_actions[i].FindingID \in Range(ids(audit_findings))
    /\ audit_engagements = <<>> =>
           /\ "new_audit_finding_form" \notin screen.widgets
           /\ ~ ENABLED CreateFinding
    /\ audit_findings = <<>> =>
           /\ "new_corrective_action_form" \notin screen.widgets
           /\ ~ ENABLED CreateCorrectiveAction

ReferentialIntegrityWitness ==
    /\ Len(corrective_actions) >= 1
    /\ corrective_actions[1].FindingID = audit_findings[1].ID
    /\ audit_findings[1].AuditEngagementID = audit_engagements[1].ID

ShowsError(s) == \E i \in DOMAIN s.messages : s.messages[i].kind = "error"

ShowsSuccess(s, id) ==
    \E i \in DOMAIN s.messages :
        s.messages[i].kind = "success" /\ s.messages[i].arg = id

\* the step is the submission of a creation form with a required field empty
EngagementFieldMissing ==
    \E ae_title \in Texts(<<"T">>), ae_department \in Texts(<<"D">>),
       ae_auditors \in Texts(<<"A">>) :
        /\ <<>> \in {ae_title, ae_department, ae_auditors}
        /\ SubmitEngagement(ae_title, ae_department, "Compliance", ae_auditors,
                            <<>>, 0, MaxDay, None)

FindingFieldMissing ==
    \E display \in selectbox(screen.link_options) :
        SubmitFinding(display, "Major", <<>>, UploadedFile(<<"e">>), Low,
                      <<>>, <<>>)

ActionFieldMissing ==
    \E display \in selectbox(screen.link_options),
       ca_responsible_person \in Texts(<<"P">>),
       ca_description \in Texts(<<"c">>), ca_due_date \in Dates :
        /\ <<>> \in {ca_responsible_person, ca_description}
        /\ SubmitCorrectiveAction(display, ca_responsible_person,
                                  ca_description, ca_due_date, None)

\* C3: a submission of a creation form with a required field left empty
\* shows the required-fields error and leaves the three lists as they were.
MissingFieldRejected ==
    [][(/\ request'.widget \in {"new_audit_engagement_form",
                                 "new_audit_finding_form",
                                 "new_corrective_action_form"}
        /\ \/ EngagementFieldMissing
           \/ FindingFieldMissing
           \/ ActionFieldMissing)
       => UNCHANGED stores /\ ShowsError(screen')
      ]_vars

MissingFieldRejectedWitness ==
    /\ request.widget = "new_corrective_action_form"
    /\ ShowsError(screen)
    /\ corrective_actions = <<>>
    /\ audit_findings # <<>>

Last(list) == list[Len(list)]

\* list2 is list1 with exactly one record more, at the end
AppendsOne(list1, list2) ==
    /\ Len(list2) = Len(list1) + 1
    /\ SubSeq(list2, 1, Len(list1)) = list1

\* C4: a step that reports a successful creation has appended exactly one
\* record to the end of the form's list, with the reported ID, which no
\* record of the list carried before, and the initial Status; the other two
\* lists are unchanged.  A list grows in no other step.
CreationAppendsOne ==
    [][/\ (request'.widget = "new_audit_engagement_form" /\ ~ ShowsError(screen'))
            => /\ AppendsOne(audit_engagements, audit_engagements')
               /\ Last(audit_engagements').Status = "Draft"
               /\ Last(audit_engagements').ID \notin Range(ids(audit_engagements))
               /\ ShowsSuccess(screen', Last(audit_engagements').ID)
               /\ UNCHANGED <<audit_findings, corrective_actions>>
       /\ (request'.widget = "new_audit_finding_form" /\ ~ ShowsError(screen'))
            => /\ AppendsOne(audit_findings, audit_findings')
               /\ Last(audit_findings').Status = "Open"
               /\ Last(audit_findings').ID \notin Range(ids(audit_findings))
               /\ ShowsSuccess(screen', Last(audit_findings').ID)
               /\ UNCHANGED <<audit_engagements, corrective_actions>>
       /\ (request'.widget = "new_corrective_action_form" /\ ~ ShowsError(screen'))
            => /\ AppendsOne(corrective_actions, corrective_actions')
               /\ Last(corrective_actions').Status = "Pending"
               /\ Last(corrective_actions').ID \notin Range(ids(corrective_actions))
               /\ ShowsSuccess(screen', Last(corrective_actions').ID)
               /\ UNCHANGED <<audit_engagements, audit_findings>>
       /\ Len(audit_engagements') # Len(audit_engagements)
            => request'.widget = "new_audit_engagement_form"
       /\ Len(audit_findings') # Len(audit_findings)
            => request'.widget = "new_audit_finding_form"
       /\ Len(corrective_actions') # Len(corrective_actions)
            => request'.widget = "new_corrective_action_form"
      ]_vars

CreationAppendsOneWitness ==
    /\ request.widget = "new_corrective_action_form"
    /\ corrective_actions # <<>>
    /\ ShowsSuccess(screen, Last(corrective_actions).ID)
    /\ Last(corrective_actions).Status = "Pending"

\* the list that an update button works on
ButtonList(widget) ==
    CASE widget = "update_ae_button" -> audit_engagements
      [] widget = "update_find_button" -> audit_findings
      [] widget = "update_ca_button" -> corrective_actions

UpdateButtons == {"update_ae_button", "update_find_button", "update_ca_button"}

StaleRequest(r) ==
    /\ r.widget \in UpdateButtons
    /\ r.selected_id \notin Range(ids(ButtonList(r.widget)))

OnlyStatusOf(list1, list2, id, status) ==
    /\ Len(list2) = Len(list1)
    /\ \A i \in DOMAIN list1 :
           list2[i] = IF list1[i].ID = id
                      THEN [list1[i] EXCEPT !.Status = status]
                      ELSE list1[i]
    /\ Cardinality({i \in DOMAIN list1 : list1[i].ID = id}) = 1

\* C6: a status update whose target ID is in the list sets the Status of the
\* one record with that ID to the chosen value; every other field of that
\* record, every other record, the order and size of the list and the two
\* other lists are unchanged.
UpdateTouchesOnlyStatus ==
    [][/\ (request'.widget = "update_ae_button"
           /\ request'.selected_id \in Range(ids(audit_engagements)))
            => /\ OnlyStatusOf(audit_engagements, audit_engagements',
                               request'.selected_id, request'.new_status)
               /\ UNCHANGED <<audit_findings, corrective_actions>>
       /\ (request'.widget = "update_find_button"
           /\ request'.selected_id \in Range(ids(audit_findings)))
            => /\ OnlyStatusOf(audit_findings, audit_findings',
                               request'.selected_id, request'.new_status)
               /\ UNCHANGED <<audit_engagements, corrective_actions>>
       /\ (request'.widget = "update_ca_button"
           /\ request'.selected_id \in Range(ids(corrective_actions)))
            => /\ OnlyStatusOf(corrective_actions, corrective_actions',
                               request'.selected_id, request'.new_status)
               /\ UNCHANGED <<audit_engagements, audit_findings>>
      ]_vars

UpdateTouchesOnlyStatusWitness ==
    /\ request.widget = "update_ae_button"
    /\ Len(audit_engagements) >= 3
    /\ request.selected_id = audit_engagements[2].ID
    /\ audit_engagements[2].Status = "Completed"
    /\ audit_engagements[1].Status = "Draft"
    /\ audit_engagements[3].Status = "Cancelled"

StatusesIn(list, enum) == \A i \in DOMAIN list : list[i].Status \in enum

\* the update page offers the record's ID and the status t, and the update of
\* the i-th record to t can happen and leaves the record with Status t
CanSetEngagement(i, t) ==
    /\ audit_engagements[i].ID \in selectbox(screen.update_options)
    /\ t \in selectbox(ae_status_options)
    /\ ENABLED (/\ UpdateEngagementStatus(audit_engagements[i].ID, t)
                /\ audit_engagements'[i].Status = t)

CanSetFinding(i, t) ==
    /\ audit_findings[i].ID \in selectbox(screen.update_options)
    /\ t \in selectbox(find_status_options)
    /\ ENABLED (/\ UpdateFindingStatus(audit_findings[i].ID, t)
                /\ audit_findings'[i].Status = t)

CanSetAction(i, t) ==
    /\ corrective_actions[i].ID \in selectbox(screen.update_options)
    /\ t \in selectbox(ca_status_options)
    /\ ENABLED (/\ UpdateActionStatus(corrective_actions[i].ID, t)
                /\ corrective_actions'[i].Status = t)

\* C7: the Status of a record is always a value of its entity's enum, and
\* wherever a list's update button is shown, every record of the list can be
\* moved by one update to every value of the enum, whatever its Status is.
AnyStatusAnyTime ==
    /\ StatusesIn(audit_engagements,
                  {"Draft", "In Progress", "Completed", "Cancelled"})
    /\ StatusesIn(audit_findings, {"Open", "Closed"})
    /\ StatusesIn(corrective_actions,
                  {"Pending", "In Progress", "Verified", "Closed"})
    /\ "update_ae_button" \in screen.widgets =>
           \A i \in DOMAIN audit_engagements :
               \A t \in {"Draft", "In Progress", "Completed", "Cancelled"} :
                   CanSetEngagement(i, t)
    /\ "update_find_button" \in screen.widgets =>
           \A i \in DOMAIN audit_findings :
               \A t \in {"Open", "Closed"} : CanSetFinding(i, t)
    /\ "update_ca_button" \in screen.widgets =>
           \A i \in DOMAIN corrective_actions :
               \A t \in {"Pending", "In Progress", "Verified", "Closed"} :
                   CanSetAction(i, t)

\* a finding that an update has closed is on the page that can reopen it
AnyStatusAnyTimeWitness ==
    /\ "update_find_button" \in screen.widgets
    /\ request.widget = "update_find_button"
    /\ \E i \in DOMAIN audit_findings :
           /\ audit_findings[i].ID = request.selected_id
           /\ audit_findings[i].Status = "Closed"
    /\ \E i \in DOMAIN audit_engagements :
           audit_engagements[i].Status = "Completed"

Overdue(list, now) ==
    {i \in DOMAIN list : /\ list[i].Status # "Verified"
                         /\ list[i].Status # "Closed"
                         /\ list[i].DueDate < now}

\* C8: the overdue count that the dashboard shows is the number of
\* corrective actions that are neither Verified nor Closed and are due
\* strictly before the date of the run that rendered the dashboard.
OverdueCount ==
    screen.page = "Dashboard" =>
        screen.overdue_actions = Cardinality(Overdue(corrective_actions, today))

\* a Verified action that was due yesterday is not counted
OverdueCountWitness ==
    /\ screen.page = "Dashboard"
    /\ \E i \in DOMAIN corrective_actions :
           /\ corrective_actions[i].Status = "Verified"
           /\ corrective_actions[i].DueDate = today - 1
    /\ screen.overdue_actions = 0

\* C9: the dashboard's recent tables show the last min(5, N) records of the
\* engagements and findings lists in creation order, without the column of
\* the attachment's raw bytes.
RecentViewsHideRawBytes ==
    screen.page = "Dashboard" =>
        /\ Len(screen.recent_engagements) = Min(RecentCount, Len(audit_engagements))
        /\ \A i \in DOMAIN screen.recent_engagements :
               LET row == screen.recent_engagements[i]
                   rec == audit_engagements[Len(audit_engagements)
                              - Len(screen.recent_engagements) + i]
               IN  /\ "AuditReportData" \notin DOMAIN row
                   /\ \A c \in DOMAIN row : row[c] = rec[c]
        /\ Len(screen.recent_findings) = Min(RecentCount, Len(audit_findings))
        /\ \A i \in DOMAIN screen.recent_findings :
               LET row == screen.recent_findings[i]
                   rec == audit_findings[Len(audit_findings)
                              - Len(screen.recent_findings) + i]
               IN  /\ "EvidenceData" \notin DOMAIN row
                   /\ \A c \in DOMAIN row : row[c] = rec[c]

KeepsRecords(list1, list2) ==
    /\ Len(list2) >= Len(list1)
    /\ \A i \in DOMAIN list1 : list2[i].ID = list1[i].ID

\* C10: in every step no list gets shorter and every record stays at its
\* position with its ID.
RecordsAreKept ==
    [][/\ KeepsRecords(audit_engagements, audit_engagements')
       /\ KeepsRecords(audit_findings, audit_findings')
       /\ KeepsRecords(corrective_actions, corrective_actions')]_vars

\* back on the dashboard, by navigation, with records in all three lists
RecordsAreKeptWitness ==
    /\ request.widget = "none"
    /\ screen.page = "Dashboard"
    /\ screen.total_audits = 1
    /\ screen.total_findings = 1
    /\ corrective_actions # <<>>

====
